---- MODULE Spec2Model ----
(***************************************************************************)
(* Model of the two route handlers of the exam-question generator:         *)
(*   src/app/api/generate-questions/route.ts  (POST /generate-questions)   *)
(*   src/app/api/extract-text/route.ts        (POST /extract-text)         *)
(*                                                                         *)
(* Texts are sequences of one-character strings, so that toLowerCase,      *)
(* trim, split and the regular expressions of the source are computed on   *)
(* characters.  A provider's reply is a sequence of JSON lexemes.          *)
(***************************************************************************)
EXTENDS Integers, Sequences, FiniteSets, TLC

VARIABLES
    env,        \* process.env: which credentials are set (never written)
    gpc,        \* generate-questions POST: position of the handler
    body,       \* generate-questions POST: the request body being served
    attempts,   \* stages attempted for the current request, in order
    failed,     \* providers whose attempt ended in the catch block
    gresp,      \* generate-questions POST: the response returned
    memo,       \* one earlier answer of the Fallback Generator, kept for comparison
    pin,        \* parseAIResponse: the text handed to it (prefix, json, suffix)
    pout,       \* parseAIResponse: its results on json alone and on the whole text
    pdfParse,   \* extract-text module variable: pdf-parse loaded?
    mammoth,    \* extract-text module variable: mammoth loaded?
    epc,        \* extract-text POST: position of the handler
    upload,     \* extract-text POST: the form data being served
    extractor,  \* extract-text POST: extraction routine that was run ("none" if none)
    extracted,  \* extract-text POST: what that routine returned or threw
    eresp       \* extract-text POST: the response returned

gvars == <<gpc, body, attempts, failed, gresp, memo>>
pvars == <<pin, pout>>
evars == <<pdfParse, mammoth, epc, upload, extractor, extracted, eresp>>
vars == <<env, gvars, pvars, evars>>

---------------------------------------------------------------------------
(* Bounds of the model *)

\* number of lexicon words a generated material starts with
MaxWords == 2
\* length of the prose before and after the JSON text of a provider reply
MaxProse == 1

---------------------------------------------------------------------------
(* Program constants *)

MinMaterialLength == 50
MinQuestionCount == 1
MaxQuestionCount == 10
MinKeywordLength == 4
MaxKeywords == 8

---------------------------------------------------------------------------
(* Characters and the string operations of the source *)

LowerSeq == <<"a","b","c","d","e","f","g","h","i","j","k","l","m","n","o","p","q","r","s","t","u","v","w","x","y","z">>
UpperSeq == <<"A","B","C","D","E","F","G","H","I","J","K","L","M","N","O","P","Q","R","S","T","U","V","W","X","Y","Z">>
Lower == {LowerSeq[i] : i \in 1..Len(LowerSeq)}
Upper == {UpperSeq[i] : i \in 1..Len(UpperSeq)}
Digits == {"0","1","2","3","4","5","6","7","8","9"}
\* \w of a JavaScript regular expression
WordChars == Lower \cup Upper \cup Digits \cup {"_"}
\* characters String.prototype.trim removes (those the model uses)
WhiteSpace == {" ", "\n", "\t"}
\* the class [.!?] of getMainConcept's split
SentenceEnd == {".", "!", "?"}

Min(a, b) == IF a < b THEN a ELSE b

ToLowerChar(c) ==
    IF c \in Upper THEN LowerSeq[CHOOSE i \in 1..Len(UpperSeq) : UpperSeq[i] = c] ELSE c

toLowerCase(t) == [i \in 1..Len(t) |-> ToLowerChar(t[i])]

RECURSIVE TrimStart(_)
TrimStart(t) == IF t # <<>> /\ Head(t) \in WhiteSpace THEN TrimStart(Tail(t)) ELSE t

RECURSIVE TrimEnd(_)
TrimEnd(t) ==
    IF t # <<>> /\ t[Len(t)] \in WhiteSpace THEN TrimEnd(SubSeq(t, 1, Len(t) - 1)) ELSE t

\* String.prototype.trim
trim(t) == TrimEnd(TrimStart(t))

\* Array.prototype.includes on an array of texts
includes(arr, x) == \E i \in 1..Len(arr) : arr[i] = x

\* last index of the maximal run of [a-z] that starts at i
RECURSIVE RunEnd(_, _)
RunEnd(t, i) == IF i < Len(t) /\ t[i + 1] \in Lower THEN RunEnd(t, i + 1) ELSE i

\* text.match(/\b[a-z]{4,}\b/g) || [] : the maximal runs of at least four
\* lower-case letters with a word boundary on both sides, left to right
RECURSIVE MatchWordsFrom(_, _)
MatchWordsFrom(t, i) ==
    IF i > Len(t) THEN <<>>
    ELSE IF t[i] \in Lower /\ (i = 1 \/ t[i - 1] \notin WordChars)
         THEN LET j == RunEnd(t, i)
              IN  IF j - i + 1 >= MinKeywordLength /\ (j = Len(t) \/ t[j + 1] \notin WordChars)
                  THEN <<SubSeq(t, i, j)>> \o MatchWordsFrom(t, j + 1)
                  ELSE MatchWordsFrom(t, j + 1)
         ELSE MatchWordsFrom(t, i + 1)

MatchWords(t) == MatchWordsFrom(t, 1)

\* [...new Set(arr)] : first occurrences, in order
RECURSIVE Unique(_)
Unique(arr) ==
    IF arr = <<>> THEN <<>>
    ELSE LET init == SubSeq(arr, 1, Len(arr) - 1)
             last == arr[Len(arr)]
         IN  IF includes(init, last) THEN Unique(init) ELSE Unique(init) \o <<last>>

\* arr.filter(p) for the stop-word test
RECURSIVE FilterOut(_, _)
FilterOut(arr, stop) ==
    IF arr = <<>> THEN <<>>
    ELSE (IF includes(stop, Head(arr)) THEN <<>> ELSE <<Head(arr)>>) \o FilterOut(Tail(arr), stop)

---------------------------------------------------------------------------
(* generate-questions: the Fallback Generator *)

stopWords == <<
    <<"a">>, <<"a","n">>, <<"y","a","n","g">>, <<"d","a","n">>, <<"d","i">>,
    <<"d","a","r","i">>, <<"u","n","t","u","k">>, <<"d","e","n","g","a","n">>,
    <<"p","a","d","a">>, <<"a","d","a","l","a","h">>, <<"m","e","r","u","p","a","k","a","n">>,
    <<"m","e","m","i","l","i","k","i">>, <<"d","a","p","a","t">>, <<"a","k","a","n">>,
    <<"o","l","e","h">>, <<"s","e","b","a","g","a","i">>, <<"d","a","l","a","m">>,
    <<"i","n","i">>, <<"t","e","r","s","e","b","u","t">>, <<"k","a","r","e","n","a">>,
    <<"s","e","p","e","r","t","i">>, <<"y","a","i","t","u">>, <<"a","t","a","u">>,
    <<"j","i","k","a">>, <<"n","a","m","u","n">>, <<"t","e","t","a","p","i">>,
    <<"m","e","l","a","i","n","k","a","n">>, <<"s","e","l","a","i","n">>, <<"i","t","u">>,
    <<"j","u","g","a">>, <<"s","u","d","a","h">>, <<"b","e","l","u","m">>,
    <<"a","k","a","n">>, <<"t","e","l","a","h">>, <<"s","e","d","a","n","g">>,
    <<"m","a","s","i","h">>, <<"l","a","g","i">>, <<"a","n","t","a","r","a">>,
    <<"k","e","p","a","d","a">>, <<"t","e","r","h","a","d","a","p">>,
    <<"t","e","n","t","a","n","g">>, <<"m","e","n","g","e","n","a","i">>,
    <<"m","e","n","g","a","p","a">>, <<"b","a","g","a","i","m","a","n","a">>,
    <<"b","e","r","a","p","a">>, <<"k","a","p","a","n">>, <<"d","i","m","a","n","a">>,
    <<"s","i","a","p","a">>, <<"a","p","a">> >>

\* the default of getMainConcept
konsep == <<"k","o","n","s","e","p">>

extractRelevantKeywords(text) ==
    LET words == MatchWords(toLowerCase(text))
        filtered == FilterOut(words, stopWords)
        unique == Unique(filtered)
    IN  SubSeq(unique, 1, Min(MaxKeywords, Len(unique)))

\* text.split(/[.!?]+/)[0]
FirstSentence(text) ==
    LET ends == {i \in 1..Len(text) : text[i] \in SentenceEnd}
    IN  IF ends = {} THEN text
        ELSE SubSeq(text, 1, (CHOOSE i \in ends : \A j \in ends : i <= j) - 1)

getMainConcept(text) ==
    LET firstSentence == trim(FirstSentence(text))
        words == MatchWords(toLowerCase(firstSentence))
    IN  IF words # <<>> THEN words[1] ELSE konsep

\* a template literal `pre${keyword}suf`, or a plain literal (kw empty, suf empty)
Text(pre, kw, suf) == [pre |-> pre, kw |-> kw, suf |-> suf]
Literal(s) == Text(s, <<>>, "")

\* FallbackQuestion with the letter of the correct option as the answer of a
\* multiple-choice question, and a model answer added to an essay question
FallbackQuestionAnswerKey(questionType, keyword) ==
    CASE questionType = "multiple-choice" ->
            [question |-> Text("Berdasarkan materi yang diberikan, manakah pernyataan yang paling tepat mengenai ", keyword, "?"),
             options |-> <<Text("", keyword, " merupakan konsep penting dalam materi pembelajaran ini"),
                           Text("", keyword, " tidak memiliki hubungan dengan topik yang dibahas"),
                           Text("", keyword, " hanya berlaku untuk kondisi tertentu saja"),
                           Text("", keyword, " dapat diabaikan dalam pemahaman materi")>>,
             correctAnswer |-> Literal("A"),
             explanation |-> Text("Berdasarkan materi pembelajaran yang diberikan, ", keyword, " adalah konsep yang relevan dan penting untuk dipahami.")]
      [] questionType = "fill-blank" ->
            [question |-> Text("Dalam konteks materi ini, ", keyword, " berperan penting sebagai ___ untuk mencapai pemahaman yang lebih baik."),
             correctAnswer |-> Literal("kunci konsep"),
             explanation |-> Text("", keyword, " merupakan kunci konsep yang membantu dalam memahami keseluruhan materi pembelajaran.")]
      [] questionType = "true-false" ->
            [question |-> Text("Berdasarkan materi pembelajaran, ", keyword, " merupakan elemen penting yang perlu dipahami."),
             correctAnswer |-> Literal("benar"),
             explanation |-> Text("Pernyataan ini benar karena ", keyword, " secara eksplisit atau implisit dibahas dalam materi pembelajaran sebagai konsep penting.")]
      [] questionType = "essay" ->
            [correctAnswer |-> Literal("lihat penjelasan"),
             question |-> Text("Jelaskan signifikansi ", keyword, " dalam konteks materi pembelajaran ini! Analisis mengapa konsep ini penting dan berikan contoh aplikasi nyata."),
             explanation |-> Text("Jawaban esai yang baik harus menjelaskan definisi ", keyword, ", pentingnya dalam konteks materi, dan memberikan contoh konkret yang relevan.")]

\* the object pushed by one iteration of the loop
FallbackQuestion(questionType, keyword) ==
    CASE questionType = "multiple-choice" ->
            [question |-> Text("Berdasarkan materi yang diberikan, manakah pernyataan yang paling tepat mengenai ", keyword, "?"),
             options |-> <<Text("", keyword, " merupakan konsep penting dalam materi pembelajaran ini"),
                           Text("", keyword, " tidak memiliki hubungan dengan topik yang dibahas"),
                           Text("", keyword, " hanya berlaku untuk kondisi tertentu saja"),
                           Text("", keyword, " dapat diabaikan dalam pemahaman materi")>>,
             correctAnswer |-> Text("", keyword, " merupakan konsep penting dalam materi pembelajaran ini"),
             explanation |-> Text("Berdasarkan materi pembelajaran yang diberikan, ", keyword, " adalah konsep yang relevan dan penting untuk dipahami.")]
      [] questionType = "fill-blank" ->
            [question |-> Text("Dalam konteks materi ini, ", keyword, " berperan penting sebagai ___ untuk mencapai pemahaman yang lebih baik."),
             correctAnswer |-> Literal("kunci konsep"),
             explanation |-> Text("", keyword, " merupakan kunci konsep yang membantu dalam memahami keseluruhan materi pembelajaran.")]
      [] questionType = "true-false" ->
            [question |-> Text("Berdasarkan materi pembelajaran, ", keyword, " merupakan elemen penting yang perlu dipahami."),
             correctAnswer |-> Literal("benar"),
             explanation |-> Text("Pernyataan ini benar karena ", keyword, " secara eksplisit atau implisit dibahas dalam materi pembelajaran sebagai konsep penting.")]
      [] questionType = "essay" ->
            [question |-> Text("Jelaskan signifikansi ", keyword, " dalam konteks materi pembelajaran ini! Analisis mengapa konsep ini penting dan berikan contoh aplikasi nyata."),
             explanation |-> Text("Jawaban esai yang baik harus menjelaskan definisi ", keyword, ", pentingnya dalam konteks materi, dan memberikan contoh konkret yang relevan.")]

\* keywords[i] || mainConcept, with the source's 0-based i
KeywordAt(keywords, mainConcept, i) ==
    IF i + 1 <= Len(keywords) THEN keywords[i + 1] ELSE mainConcept

\* the questions array built by the loop  for (i = 0; i < questionCount; i++)
\* (no question is pushed for a type outside the switch)
RECURSIVE FallbackLoop(_, _, _, _, _)
FallbackLoop(questionType, questionCount, keywords, mainConcept, i) ==
    IF ~(i < questionCount) THEN <<>>
    ELSE (IF questionType \in {"multiple-choice", "fill-blank", "true-false", "essay"}
          THEN <<FallbackQuestion(questionType, KeywordAt(keywords, mainConcept, i))>>
          ELSE <<>>)
         \o FallbackLoop(questionType, questionCount, keywords, mainConcept, i + 1)


\* generateFallbackQuestions with a loop that stops when the keywords run out
generateFallbackQuestionsNoPadding(request) ==
    LET keywords == extractRelevantKeywords(request.material)
        mainConcept == getMainConcept(request.material)
    IN  FallbackLoop(request.questionType, Min(request.questionCount, Len(keywords)),
                     keywords, mainConcept, 0)

\* generateFallbackQuestions with a keyword cursor kept at module level: once an
\* answer has been given the first keyword is taken as used
generateFallbackQuestionsCursor(request) ==
    LET all == extractRelevantKeywords(request.material)
        keywords == IF memo.set /\ all # <<>> THEN Tail(all) ELSE all
        mainConcept == getMainConcept(request.material)
    IN  FallbackLoop(request.questionType, request.questionCount, keywords, mainConcept, 0)

\* data.questions of the response of generateFallbackQuestions(request)
generateFallbackQuestions(request) ==
    LET keywords == extractRelevantKeywords(request.material)
        mainConcept == getMainConcept(request.material)
    IN  FallbackLoop(request.questionType, request.questionCount, keywords, mainConcept, 0)

---------------------------------------------------------------------------
(* generate-questions: the Response Parser *)

(***************************************************************************)
(* A provider's reply is a sequence of lexemes: "{" "}" "[" "]" are the    *)
(* JSON punctuation characters, "q" the member name "questions" with its   *)
(* colon, "1" a scalar literal, "w" a word of prose, " " white space.      *)
(* An object has no member or the one member "questions"; an array has no  *)
(* element or one.                                                         *)
(***************************************************************************)
JsonWhiteSpace == {" "}

RECURSIVE StripWs(_)
StripWs(t) ==
    IF t = <<>> THEN <<>>
    ELSE (IF Head(t) \in JsonWhiteSpace THEN <<>> ELSE <<Head(t)>>) \o StripWs(Tail(t))

At(t, i) == IF i >= 1 /\ i <= Len(t) THEN t[i] ELSE "eof"

\* the index after the JSON value that starts at t[i], 0 when there is none
RECURSIVE ValueEnd(_, _)
ValueEnd(t, i) ==
    CASE At(t, i) = "1" -> i + 1
      [] At(t, i) = "[" ->
            IF At(t, i + 1) = "]" THEN i + 2
            ELSE LET e == ValueEnd(t, i + 1)
                 IN  IF e # 0 /\ At(t, e) = "]" THEN e + 1 ELSE 0
      [] At(t, i) = "{" ->
            IF At(t, i + 1) = "}" THEN i + 2
            ELSE IF At(t, i + 1) = "q"
                 THEN LET e == ValueEnd(t, i + 2)
                      IN  IF e # 0 /\ At(t, e) = "}" THEN e + 1 ELSE 0
                 ELSE 0
      [] OTHER -> 0

\* JSON.parse: the value is the text without white space, as no lexeme has
\* two spellings; a SyntaxError is thrown unless the text is one value
JSONparse(t) ==
    LET s == StripWs(t)
    IN  IF ValueEnd(s, 1) = Len(s) + 1
        THEN [ok |-> TRUE, value |-> s, error |-> ""]
        ELSE [ok |-> FALSE, value |-> <<>>, error |-> "SyntaxError"]


\* BraceMatch with a lazy quantifier, /\{[\s\S]*?\}/ : from the first "{" to the
\* first "}" after it
BraceMatchLazy(t) ==
    LET opens == {i \in 1..Len(t) : t[i] = "{"}
        first == IF opens = {} THEN 0 ELSE CHOOSE i \in opens : \A j \in opens : i <= j
        closes == {i \in 1..Len(t) : t[i] = "}" /\ i > first}
        last == IF closes = {} THEN 0 ELSE CHOOSE i \in closes : \A j \in closes : i <= j
    IN  IF first = 0 \/ last = 0
        THEN [found |-> FALSE, text |-> <<>>]
        ELSE [found |-> TRUE, text |-> SubSeq(t, first, last)]

\* response.match(/\{[\s\S]*\}/) : from the first "{" to the last "}"
BraceMatch(t) ==
    LET opens == {i \in 1..Len(t) : t[i] = "{"}
        first == IF opens = {} THEN 0 ELSE CHOOSE i \in opens : \A j \in opens : i <= j
        closes == {i \in 1..Len(t) : t[i] = "}" /\ i > first}
        last == IF closes = {} THEN 0 ELSE CHOOSE i \in closes : \A j \in closes : i >= j
    IN  IF first = 0 \/ last = 0
        THEN [found |-> FALSE, text |-> <<>>]
        ELSE [found |-> TRUE, text |-> SubSeq(t, first, last)]

parseAIResponse(response) ==
    LET direct == JSONparse(response)
        jsonMatch == BraceMatch(response)
        inner == JSONparse(jsonMatch.text)
    IN  IF direct.ok THEN direct
        ELSE IF jsonMatch.found
             THEN IF inner.ok THEN inner
                  ELSE [ok |-> FALSE, value |-> <<>>, error |-> "Gagal mem-parsing response dari AI"]
             ELSE [ok |-> FALSE, value |-> <<>>,
                   error |-> "Response dari AI tidak mengandung JSON yang valid"]

\* data.questions of a parsed reply is an array with at least one element
HasQuestions(value) ==
    /\ At(value, 1) = "{"
    /\ At(value, 2) = "q"
    /\ At(value, 3) = "["
    /\ At(value, 4) # "]"

---------------------------------------------------------------------------
(* generate-questions: the inputs the model draws from *)

\* process.env at process start; TRUE when the variable is set
Envs == [OPENROUTER_API_KEY : BOOLEAN, GOOGLE_GEMINI_API_KEY : BOOLEAN,
         HUGGINGFACE_API_KEY : BOOLEAN]

Repeat(c, n) == [i \in 1..n |-> c]

\* a keyword, a second keyword, a stop word in upper case, a run of letters
\* that ends in a digit (no word boundary), and the end of a sentence
Lexicon == << <<"d","a","t","a">>, <<"s","i","s","t","e","m">>, <<"Y","a","n","g">>,
              <<"k","o","d","e","1">>, <<".">> >>

WordSeqs == UNION {[1..n -> 1..Len(Lexicon)] : n \in 0..MaxWords}

RECURSIVE Join(_)
Join(ws) == IF ws = <<>> THEN <<>> ELSE Lexicon[Head(ws)] \o <<" ">> \o Join(Tail(ws))

\* the words kataa, katab, ... : n different keywords
RECURSIVE ManyWords(_)
ManyWords(n) ==
    IF n = 0 THEN <<>>
    ELSE ManyWords(n - 1) \o <<"k","a","t","a", LowerSeq[n], " ">>

\* t followed by digits up to length n
PadTo(t, n) == t \o Repeat("7", n - Len(t))

\* materials that pass the length check: lexicon words padded to the minimum
\* length, the letter x repeated, more keywords than are kept
ValidMaterials ==
    {PadTo(Join(ws), MinMaterialLength) : ws \in WordSeqs}
    \cup {Repeat("x", MinMaterialLength), ManyWords(MaxKeywords + 2)}

\* materials that fail it: missing or empty, one character short, long enough
\* only with the white space that trim removes
ShortMaterials ==
    { <<>>,
      PadTo(Join(<<1>>), MinMaterialLength - 1),
      <<" ">> \o PadTo(Join(<<1>>), MinMaterialLength - 1),
      Join(<<1, 2>>) \o Repeat(" ", MinMaterialLength) }

\* the materials of the requests sent through the provider cascade
Materials ==
    ShortMaterials
    \cup { Repeat("x", MinMaterialLength), ManyWords(MaxKeywords + 2),
           PadTo(<<>>, MinMaterialLength), PadTo(Join(<<3, 1, 5, 2>>), MinMaterialLength) }

\* "" stands for a missing questionType (falsy like the empty string)
QuestionTypes == {"multiple-choice", "fill-blank", "true-false", "essay", "matching", ""}

\* 0 stands for a missing questionCount (falsy like 0)
QuestionCounts == {-1, 0, MinQuestionCount, MaxKeywords + 1, MaxQuestionCount, MaxQuestionCount + 1}

\* json: request.json() resolves; materialKind "other": a truthy value that is
\* no string (it has no trim method)
StringBodies ==
    [json : {TRUE}, materialKind : {"string"}, material : Materials,
     questionType : QuestionTypes, questionCount : QuestionCounts]
OtherBodies ==
    [json : BOOLEAN, materialKind : {"other"}, material : {<<>>},
     questionType : {"essay", "matching"}, questionCount : {0, MinQuestionCount}]
Bodies == StringBodies \cup OtherBodies

\* the valid requests the Fallback Generator is run on by itself
SupportedTypes == {"multiple-choice", "fill-blank", "true-false", "essay"}
FallbackBodies ==
    [json : {TRUE}, materialKind : {"string"}, material : ValidMaterials,
     questionType : SupportedTypes, questionCount : MinQuestionCount..MaxQuestionCount]

\* the requests whose answers are kept and compared across requests
ProbeBodies ==
    [json : {TRUE}, materialKind : {"string"},
     material : {Repeat("x", MinMaterialLength), ManyWords(MaxKeywords + 2),
                 PadTo(Join(<<3, 1, 5, 2>>), MinMaterialLength)},
     questionType : {"multiple-choice", "essay"},
     questionCount : {MinQuestionCount, MaxKeywords + 1}]

NoBody == [json |-> FALSE, materialKind |-> "string", material |-> <<>>,
           questionType |-> "", questionCount |-> 0]

\* what a provider call comes to: fetch rejects; the status is not ok; the body
\* lacks choices[0].message.content (candidates[0].content.parts[0].text) or it is
\* no string; the reply text
ReplyTexts ==
    { <<"{","q","[","1","]","}">>,
      <<"w"," ","{","q","[","1","]","}"," ","w">>,
      <<"{","q","[","{","}","]","}">>,
      <<"{","q","[","]","}">>,
      <<"{","}">>,
      <<"1">>,
      <<"w">>,
      <<"{","w","}">>,
      <<>> }
ProviderReplies ==
    [kind : {"reject", "notok", "badshape"}, text : {<<>>}]
    \cup [kind : {"text"}, text : ReplyTexts]

---------------------------------------------------------------------------
(* generate-questions: POST *)

NoResp == [status |-> 0, source |-> "none", error |-> "", questions |-> <<>>, parsed |-> <<>>]

ErrorResponse(status, error) ==
    [status |-> status, source |-> "none", error |-> error, questions |-> <<>>, parsed |-> <<>>]

\* const genAI = process.env.GOOGLE_GEMINI_API_KEY ? new GoogleGenerativeAI(...) : null
genAI(e) == e.GOOGLE_GEMINI_API_KEY

NoCredential(e) ==
    ~e.OPENROUTER_API_KEY /\ ~e.GOOGLE_GEMINI_API_KEY /\ ~e.HUGGINGFACE_API_KEY

\* the outer catch block
GenericError == ErrorResponse(500, "Gagal menghasilkan soal. Silakan coba lagi.")


\* EarlyResponse without the check of questionType
EarlyResponseNoTypeCheck(e, b) ==
    IF NoCredential(e)
    THEN ErrorResponse(500, "Tidak ada API key yang dikonfigurasi (OpenRouter, Gemini, atau Hugging Face)")
    ELSE IF ~b.json THEN GenericError
    ELSE IF b.materialKind = "string" /\ b.material = <<>>
    THEN ErrorResponse(400, "Materi pembelajaran harus diisi minimal 50 karakter")
    ELSE IF b.materialKind # "string" THEN GenericError
    ELSE IF Len(trim(b.material)) < MinMaterialLength
    THEN ErrorResponse(400, "Materi pembelajaran harus diisi minimal 50 karakter")
    ELSE IF b.questionCount = 0 \/ b.questionCount < MinQuestionCount
            \/ b.questionCount > MaxQuestionCount
    THEN ErrorResponse(400, "Jumlah soal harus antara 1-10")
    ELSE NoResp

\* the response of the handler when it returns before the provider cascade,
\* NoResp when it goes on
EarlyResponse(e, b) ==
    IF NoCredential(e)
    THEN ErrorResponse(500, "Tidak ada API key yang dikonfigurasi (OpenRouter, Gemini, atau Hugging Face)")
    ELSE IF ~b.json THEN GenericError
    ELSE IF b.materialKind = "string" /\ b.material = <<>>
    THEN ErrorResponse(400, "Materi pembelajaran harus diisi minimal 50 karakter")
    ELSE IF b.materialKind # "string" THEN GenericError
    ELSE IF Len(trim(b.material)) < MinMaterialLength
    THEN ErrorResponse(400, "Materi pembelajaran harus diisi minimal 50 karakter")
    ELSE IF b.questionType = ""
            \/ b.questionType \notin {"multiple-choice", "fill-blank", "true-false", "essay"}
    THEN ErrorResponse(400, "Jenis soal tidak valid")
    ELSE IF b.questionCount = 0 \/ b.questionCount < MinQuestionCount
            \/ b.questionCount > MaxQuestionCount
    THEN ErrorResponse(400, "Jumlah soal harus antara 1-10")
    ELSE NoResp


\* FallbackResponse of an endpoint without the template path: a retry-later error
FallbackResponseRetryLater(b) == GenericError

FallbackResponse(b) ==
    [status |-> 200, source |-> "Fallback", error |-> "",
     questions |-> generateFallbackQuestions(b), parsed |-> <<>>]

AIResponse(provider, parsedResponse) ==
    [status |-> 200, source |-> provider, error |-> "", questions |-> <<>>,
     parsed |-> parsedResponse]

\* the try block of a provider: the parsed reply, or the exception thrown
ProviderResult(r) ==
    IF r.kind = "text" THEN parseAIResponse(r.text)
    ELSE [ok |-> FALSE, value |-> <<>>, error |-> r.kind]

\* the stage entered after validation
FirstStage(e) == IF e.OPENROUTER_API_KEY THEN "OpenRouter" ELSE "Fallback"

\* the stage entered by catch (openrouterError)
StageAfterOpenRouter(e) == IF genAI(e) THEN "Gemini" ELSE "Fallback"

\* entering a stage: a provider call is awaited, the Fallback Generator answers
Enter(stage, b) ==
    /\ attempts' = Append(attempts, stage)
    /\ IF stage = "Fallback"
       THEN gpc' = "done" /\ gresp' = FallbackResponse(b)
       ELSE gpc' = "await" \o stage /\ gresp' = NoResp

GenReceive(b) ==
    /\ gpc = "idle"
    /\ body' = b
    /\ LET early == EarlyResponse(env, b)
       IN  IF early.status # 0
           THEN /\ gpc' = "done"
                /\ gresp' = early
                /\ attempts' = attempts
           ELSE Enter(FirstStage(env), b)
    /\ UNCHANGED <<env, failed, memo, pvars, evars>>

OpenRouterReply(r) ==
    /\ gpc = "awaitOpenRouter"
    /\ IF ProviderResult(r).ok
       THEN /\ gpc' = "done"
            /\ gresp' = AIResponse("OpenRouter", ProviderResult(r).value)
            /\ UNCHANGED <<attempts, failed>>
       ELSE /\ failed' = failed \cup {"OpenRouter"}
            /\ Enter(StageAfterOpenRouter(env), body)
    /\ UNCHANGED <<env, body, memo, pvars, evars>>

GeminiReply(r) ==
    /\ gpc = "awaitGemini"
    /\ IF ProviderResult(r).ok
       THEN /\ gpc' = "done"
            /\ gresp' = AIResponse("Gemini", ProviderResult(r).value)
            /\ UNCHANGED <<attempts, failed>>
       ELSE /\ failed' = failed \cup {"Gemini"}
            /\ Enter("Fallback", body)
    /\ UNCHANGED <<env, body, memo, pvars, evars>>

\* the response is sent; the next request finds nothing of this one
GenReset ==
    /\ gpc = "done"
    /\ gpc' = "idle"
    /\ body' = NoBody
    /\ attempts' = <<>>
    /\ failed' = {}
    /\ gresp' = NoResp
    /\ UNCHANGED <<env, memo, pvars, evars>>

---------------------------------------------------------------------------
(* Specification of POST /generate-questions *)

NoMemo == [set |-> FALSE, body |-> NoBody, questions |-> <<>>]
NoInput == [prefix |-> <<>>, json |-> <<>>, suffix |-> <<>>]
NoParse == [ok |-> FALSE, value |-> <<>>, error |-> ""]
NoOutput == [done |-> FALSE, alone |-> NoParse, whole |-> NoParse]
NoUpload == [form |-> FALSE, file |-> FALSE, name |-> <<>>, type |-> "", size |-> 0,
             content |-> <<>>]
NoExtracted == [kind |-> "none", text |-> <<>>, message |-> ""]
NoEResp == [status |-> 0, success |-> FALSE, error |-> "", message |-> "", text |-> <<>>,
            fileType |-> <<>>]

Idle ==
    /\ gpc = "idle"
    /\ body = NoBody
    /\ attempts = <<>>
    /\ failed = {}
    /\ gresp = NoResp
    /\ memo = NoMemo
    /\ pin = NoInput
    /\ pout = NoOutput
    /\ pdfParse = FALSE
    /\ mammoth = FALSE
    /\ epc = "idle"
    /\ upload = NoUpload
    /\ extractor = "none"
    /\ extracted = NoExtracted
    /\ eresp = NoEResp

Init == env \in Envs /\ Idle

Next ==
    \/ \E b \in Bodies : GenReceive(b)
    \/ \E r \in ProviderReplies : OpenRouterReply(r)
    \/ \E r \in ProviderReplies : GeminiReply(r)
    \/ GenReset

Spec == Init /\ [][Next]_vars

---------------------------------------------------------------------------
(* Specification of the Fallback Generator by itself: only the Hugging Face *)
(* key is set, so that every valid request is answered by the generator.    *)

FallbackEnv == [OPENROUTER_API_KEY |-> FALSE, GOOGLE_GEMINI_API_KEY |-> FALSE,
                HUGGINGFACE_API_KEY |-> TRUE]

InitFallback == env = FallbackEnv /\ Idle

NextFallback ==
    \/ \E b \in FallbackBodies : GenReceive(b)
    \/ GenReset

SpecFallback == InitFallback /\ [][NextFallback]_vars

---------------------------------------------------------------------------
(* Specification of repeated requests: the answer of the Fallback Generator *)
(* to one earlier request is kept and later requests are served.            *)

\* the response is sent and, when the Fallback Generator produced it, kept
GenRemember ==
    /\ gpc = "done"
    /\ gresp.source = "Fallback"
    /\ ~memo.set
    /\ memo' = [set |-> TRUE, body |-> body, questions |-> gresp.questions]
    /\ gpc' = "idle"
    /\ body' = NoBody
    /\ attempts' = <<>>
    /\ failed' = {}
    /\ gresp' = NoResp
    /\ UNCHANGED <<env, pvars, evars>>

NextRepeat ==
    \/ \E b \in ProbeBodies : GenReceive(b)
    \/ \E r \in ProviderReplies : OpenRouterReply(r)
    \/ \E r \in ProviderReplies : GeminiReply(r)
    \/ GenReset
    \/ GenRemember

SpecRepeat == Init /\ [][NextRepeat]_vars

---------------------------------------------------------------------------
(* Specification of the Response Parser by itself: a JSON text with prose   *)
(* before and after it is parsed alone and with the prose.                  *)

\* what a reply holds around its JSON text
ProseLexemes == {"w", " ", "{", "}", "[", "]"}
Prose == UNION {[1..n -> ProseLexemes] : n \in 0..MaxProse}

JsonTexts ==
    { <<"{","q","[","1","]","}">>,
      <<"{"," ","q"," ","[","]"," ","}">>,
      <<"{","q","[","{","}","]","}">>,
      <<"{","q","[","{","q","[","1","]","}","]","}">>,
      <<"{","q","1","}">>,
      <<"{","}">>,
      <<"{","q","[","1","}">> }

ParserInputs == [prefix : Prose, json : JsonTexts, suffix : Prose]

InitParser == env = FallbackEnv /\ Idle

ParseReply(i) ==
    /\ ~pout.done
    /\ pin' = i
    /\ pout' = [done |-> TRUE,
                alone |-> parseAIResponse(i.json),
                whole |-> parseAIResponse(i.prefix \o i.json \o i.suffix)]
    /\ UNCHANGED <<env, gvars, evars>>

ParseReset ==
    /\ pout.done
    /\ pin' = NoInput
    /\ pout' = NoOutput
    /\ UNCHANGED <<env, gvars, evars>>

NextParser ==
    \/ \E i \in ParserInputs : ParseReply(i)
    \/ ParseReset

SpecParser == InitParser /\ [][NextParser]_vars

---------------------------------------------------------------------------
(* extract-text: helpers *)

\* 10 * 1024 * 1024, the size limit in bytes
MaxFileSize == 10 * 1024 * 1024
\* the least length of the trimmed extracted text
MinExtractedLength == 10

ToUpperChar(c) ==
    IF c \in Lower THEN UpperSeq[CHOOSE i \in 1..Len(LowerSeq) : LowerSeq[i] = c] ELSE c

toUpperCase(t) == [i \in 1..Len(t) |-> ToUpperChar(t[i])]

\* String.prototype.lastIndexOf, 0-based, -1 when c does not occur
lastIndexOf(t, c) ==
    LET at == {i \in 1..Len(t) : t[i] = c}
    IN  IF at = {} THEN -1 ELSE (CHOOSE i \in at : \A j \in at : i >= j) - 1

\* String.prototype.substring(start), start 0-based, a negative start taken as 0
substring(t, start) ==
    LET from == IF start < 0 THEN 0 ELSE start
    IN  SubSeq(t, from + 1, Len(t))

validExtensions == << <<".","p","d","f">>, <<".","d","o","c","x">>, <<".","t","x","t">> >>
validMimeTypes ==
    << "application/pdf",
       "application/vnd.openxmlformats-officedocument.wordprocessingml.document",
       "text/plain" >>

isValidFileType(filename, mimeType) ==
    LET extension == substring(toLowerCase(filename), lastIndexOf(filename, "."))
    IN  includes(validExtensions, extension) /\ includes(validMimeTypes, mimeType)


\* FileTooLarge with >= for >
FileTooLargeInclusive(size) == size >= MaxFileSize

\* file.size > 10 * 1024 * 1024
FileTooLarge(size) == size > MaxFileSize


\* ExtractionEmpty without the trim
ExtractionEmptyNoTrim(text) == text = <<>> \/ Len(text) < MinExtractedLength

\* !extractedText || extractedText.trim().length < 10
ExtractionEmpty(text) == text = <<>> \/ Len(trim(text)) < MinExtractedLength

\* const fileType = file.name.toLowerCase().substring(file.name.lastIndexOf('.') + 1)
FileTypeOf(filename) == substring(toLowerCase(filename), lastIndexOf(filename, ".") + 1)

---------------------------------------------------------------------------
(* extract-text: the inputs the model draws from *)

FileNames ==
    { <<"a",".","p","d","f">>, <<"A",".","P","D","F">>, <<"a",".","d","o","c","x">>,
      <<"a",".","t","x","t">>, <<"a",".","e","x","e">>, <<"a",".","t","x","t",".","e","x","e">>,
      <<"n","o","t","e","s">> }

MimeTypes ==
    { "application/pdf",
      "application/vnd.openxmlformats-officedocument.wordprocessingml.document",
      "text/plain", "application/x-msdownload", "" }

\* the text of a file, or the text a library returns
Contents ==
    { <<>>,
      <<"H","i">>,
      <<" "," ","H","i"," "," "," "," "," "," "," ","\n">>,
      <<"0","1","2","3","4","5","6","7","8">>,
      <<"0","1","2","3","4","5","6","7","8","9">>,
      <<"\n","U","j","i","a","n"," ","a","k","h","i","r","\n">> }

\* a file holds its text, followed by white space when it is larger
FileSizes(content) ==
    {Len(content), MaxFileSize - 1, MaxFileSize, MaxFileSize + 1, 2 * MaxFileSize}

\* form: request.formData() resolves; file: the form has the field "file"
FileUploads ==
    UNION {[form : {TRUE}, file : {TRUE}, name : FileNames, type : MimeTypes,
            size : FileSizes(c), content : {c}] : c \in Contents}
Uploads ==
    FileUploads \cup {NoUpload, [NoUpload EXCEPT !.form = TRUE]}

\* what a call of pdfParse(buffer) or mammoth.extractRawText({buffer}) comes to:
\* it throws, it returns a text, it returns an object without the text
LibraryResults ==
    [kind : {"text"}, text : Contents, message : {""}]
    \cup {[kind |-> "threw", text |-> <<>>, message |-> "library error"],
          [kind |-> "undefined", text |-> <<>>, message |-> ""]}

---------------------------------------------------------------------------
(* extract-text: POST *)

ExtractError(status, error, message) ==
    [status |-> status, success |-> FALSE, error |-> error, message |-> message,
     text |-> <<>>, fileType |-> <<>>]

\* the response of the handler when it returns before the extraction,
\* NoEResp when it goes on
EarlyExtractResponse(u) ==
    IF ~u.form
    THEN ExtractError(500, "Terjadi kesalahan saat memproses file. Silakan coba lagi.", "")
    ELSE IF ~u.file THEN ExtractError(400, "Tidak ada file yang diupload", "")
    ELSE IF FileTooLarge(u.size) THEN ExtractError(400, "Ukuran file maksimal 10MB", "")
    ELSE IF ~isValidFileType(u.name, u.type)
    THEN ExtractError(400, "Tipe file tidak didukung. Gunakan PDF, DOCX, atau TXT", "")
    ELSE NoEResp

\* the extraction routine the switch on fileType calls
RoutineOf(fileType) ==
    CASE fileType = <<"p","d","f">> -> "extractFromPDF"
      [] fileType = <<"d","o","c","x">> -> "extractFromDOCX"
      [] fileType = <<"t","x","t">> -> "extractFromText"
      [] OTHER -> "none"

\* what the routine returns or throws, given whether its library is loaded
\* and what a call of the library comes to
Extraction(routine, content, pdfLoaded, mammothLoaded, lib) ==
    CASE routine = "extractFromText" -> [kind |-> "text", text |-> content, message |-> ""]
      [] routine = "extractFromPDF" ->
            IF pdfLoaded THEN lib
            ELSE [kind |-> "threw", text |-> <<>>, message |-> "pdfParse is not a function"]
      [] routine = "extractFromDOCX" ->
            IF mammothLoaded THEN lib
            ELSE [kind |-> "threw", text |-> <<>>,
                  message |-> "Cannot read properties of null (reading 'extractRawText')"]
      [] OTHER -> [kind |-> "threw", text |-> <<>>, message |-> "Tipe file tidak didukung"]

\* the response after the extraction routine has run
ExtractResponse(fileType, result) ==
    IF result.kind = "threw"
    THEN ExtractError(500, "Gagal mengekstrak teks dari", result.message)
    ELSE IF ExtractionEmpty(result.text)
    THEN ExtractError(400, "Tidak dapat mengekstrak teks dari file. Pastikan file mengandung teks yang dapat dibaca.", "")
    ELSE [status |-> 200, success |-> TRUE, error |-> "", message |-> "",
          text |-> result.text, fileType |-> toUpperCase(fileType)]

ExtReceive(u) ==
    /\ epc = "idle"
    /\ upload' = u
    /\ LET early == EarlyExtractResponse(u)
       IN  IF early.status # 0
           THEN epc' = "done" /\ eresp' = early
           ELSE epc' = "extracting" /\ eresp' = NoEResp
    /\ UNCHANGED <<env, gvars, pvars, pdfParse, mammoth, extractor, extracted>>

\* the extraction and what follows it; importPdf and importMammoth tell whether
\* loadLibraries' dynamic imports succeed when they are made
ExtExtract(importPdf, importMammoth, lib) ==
    /\ epc = "extracting"
    /\ LET fileType == FileTypeOf(upload.name)
           routine == RoutineOf(fileType)
           loads == routine \in {"extractFromPDF", "extractFromDOCX"}
           pdfLoaded == IF loads /\ ~pdfParse THEN importPdf ELSE pdfParse
           mammothLoaded == IF loads /\ ~mammoth THEN importMammoth ELSE mammoth
           result == Extraction(routine, upload.content, pdfLoaded, mammothLoaded, lib)
       IN  /\ pdfParse' = pdfLoaded
           /\ mammoth' = mammothLoaded
           /\ extractor' = routine
           /\ extracted' = result
           /\ eresp' = ExtractResponse(fileType, result)
    /\ epc' = "done"
    /\ UNCHANGED <<env, gvars, pvars, upload>>

\* the response is sent; the loaded libraries stay
ExtReset ==
    /\ epc = "done"
    /\ epc' = "idle"
    /\ upload' = NoUpload
    /\ extractor' = "none"
    /\ extracted' = NoExtracted
    /\ eresp' = NoEResp
    /\ UNCHANGED <<env, gvars, pvars, pdfParse, mammoth>>

NextExtract ==
    \/ \E u \in Uploads : ExtReceive(u)
    \/ \E importPdf \in BOOLEAN, importMammoth \in BOOLEAN, lib \in LibraryResults :
           ExtExtract(importPdf, importMammoth, lib)
    \/ ExtReset

InitExtract == env = FallbackEnv /\ Idle

SpecExtract == InitExtract /\ [][NextExtract]_vars

---------------------------------------------------------------------------
(* Properties of POST /generate-questions *)

Configured(e) ==
    (IF e.OPENROUTER_API_KEY THEN {"OpenRouter"} ELSE {})
    \cup (IF e.GOOGLE_GEMINI_API_KEY THEN {"Gemini"} ELSE {})

Rank(stage) ==
    CASE stage = "OpenRouter" -> 1 [] stage = "Gemini" -> 2 [] stage = "Fallback" -> 3

AttemptedBefore(p, k) == \E j \in 1..(k - 1) : attempts[j] = p

\* a request that passes validation, in the words of the interface
ValidRequest(b) ==
    /\ b.json
    /\ b.materialKind = "string"
    /\ Len(trim(b.material)) >= 50
    /\ b.questionType \in {"multiple-choice", "fill-blank", "true-false", "essay"}
    /\ b.questionCount \in 1..10

\* one of the three validation failures, in the words of the interface
InvalidRequest(b) ==
    /\ b.json
    /\ \/ b.materialKind = "string" /\ Len(b.material) < 50
       \/ b.questionType \notin {"multiple-choice", "fill-blank", "true-false", "essay"}
       \/ b.questionCount \notin 1..10

NoCredentialConfigured ==
    env = [OPENROUTER_API_KEY |-> FALSE, GOOGLE_GEMINI_API_KEY |-> FALSE,
           HUGGINGFACE_API_KEY |-> FALSE]

\* every configured provider was attempted for the request and failed
AllProvidersFailed == Configured(env) # {} /\ Configured(env) \subseteq failed

(* C1: the stages of a valid request are attempted one after another in the  *)
(* order OpenRouter, Gemini, Fallback Generator; each configured provider is *)
(* attempted at most once; a stage is attempted only after every earlier     *)
(* configured provider has been attempted and has failed; the Fallback       *)
(* Generator answers only when no configured provider succeeded.             *)
C1_ProviderOrder ==
    /\ \A j, k \in 1..Len(attempts) : j < k => Rank(attempts[j]) < Rank(attempts[k])
    /\ \A k \in 1..Len(attempts) : attempts[k] # "Fallback" => attempts[k] \in Configured(env)
    /\ \A k \in 1..Len(attempts) : \A p \in Configured(env) :
           Rank(p) < Rank(attempts[k]) => AttemptedBefore(p, k) /\ p \in failed
    /\ gresp.source = "Fallback" => Configured(env) \subseteq failed

C3_Status500 ==
    gpc = "done" =>
        /\ NoCredentialConfigured => gresp.status = 500
        /\ AllProvidersFailed => gresp.status = 500

(* C3, amended: the answer is 500 when no credential is configured; when     *)
(* every configured provider fails for a request, the answer is 200 with the *)
(* questions of the Fallback Generator.                                      *)
C3_NoCredentialOrFallback ==
    gpc = "done" =>
        /\ NoCredentialConfigured => gresp.status = 500 /\ attempts = <<>>
        /\ AllProvidersFailed =>
               /\ gresp.status = 200
               /\ gresp.source = "Fallback"
               /\ Len(gresp.questions) = body.questionCount

C3_Witness ==
    /\ gpc = "done"
    /\ failed = {"OpenRouter", "Gemini"}
    /\ gresp.status = 200
    /\ gresp.source = "Fallback"

(* C4: for every valid request the Fallback Generator answers, with exactly  *)
(* questionCount questions; the questions after the last keyword use the     *)
(* main concept, which is the placeholder when the material has no word of   *)
(* four letters.                                                             *)
C4_FallbackLength ==
    gpc = "done" /\ ValidRequest(body) =>
        /\ gresp.status = 200
        /\ gresp.source = "Fallback"
        /\ Len(gresp.questions) = body.questionCount
        /\ \A i \in 1..Len(gresp.questions) :
               i > Len(extractRelevantKeywords(body.material)) =>
                   gresp.questions[i].question.kw = getMainConcept(body.material)
        /\ MatchWords(toLowerCase(body.material)) = <<>> =>
               \A i \in 1..Len(gresp.questions) : gresp.questions[i].question.kw = konsep

C4_Witness ==
    /\ gpc = "done"
    /\ ValidRequest(body)
    /\ body.questionCount = 10
    /\ Len(extractRelevantKeywords(body.material)) = 2
    /\ gresp.source = "Fallback"
    /\ Len(gresp.questions) = 10

(* C5: a 200 response whose data an AI provider produced holds a non-empty   *)
(* sequence of questions.                                                    *)
C5_ProviderQuestionsNonEmpty ==
    gpc = "done" /\ gresp.status = 200 /\ gresp.source \in {"OpenRouter", "Gemini"} =>
        HasQuestions(gresp.parsed)

---------------------------------------------------------------------------
(* Properties of the Response Parser *)

\* a well-formed JSON object text with a questions array
WellFormedQuestions(j) ==
    LET v == StripWs(j)
    IN  /\ ValueEnd(v, 1) = Len(v) + 1
        /\ At(v, 1) = "{" /\ At(v, 2) = "q" /\ At(v, 3) = "["

Has(t, c) == \E i \in 1..Len(t) : t[i] = c

Blank(t) == \A i \in 1..Len(t) : t[i] = " "

SameParse(a, b) == a.ok /\ b.ok /\ a.value = b.value

(* C6, as stated: for a well-formed JSON object text J with a questions      *)
(* array and any prose P and S, parsing P + J + S returns what parsing J     *)
(* returns.                                                                  *)
C6_RoundTripAnyProse ==
    pout.done /\ WellFormedQuestions(pin.json) => SameParse(pout.whole, pout.alone)

(* C6, amended: the same for prose P without "{" and prose S without "}",    *)
(* when P + J + S is not itself a JSON text with something other than white  *)
(* space around J.                                                           *)
C6_RoundTripBraceFreeProse ==
    /\ pout.done
    /\ WellFormedQuestions(pin.json)
    /\ ~Has(pin.prefix, "{")
    /\ ~Has(pin.suffix, "}")
    /\ Blank(pin.prefix \o pin.suffix)
         \/ ValueEnd(StripWs(pin.prefix \o pin.json \o pin.suffix), 1)
              # Len(StripWs(pin.prefix \o pin.json \o pin.suffix)) + 1
    => SameParse(pout.whole, pout.alone)

C6_Witness ==
    /\ pout.done
    /\ pin.prefix = <<"w">>
    /\ pin.suffix = <<"w">>
    /\ pin.json = <<"{","q","[","{","}","]","}">>
    /\ SameParse(pout.whole, pout.alone)

---------------------------------------------------------------------------
(* Properties of POST /extract-text *)

ExtensionOf(name) == substring(toLowerCase(name), lastIndexOf(name, "."))

\* the extension and the declared type name the same format
TypeMatches(name, type) ==
    \/ ExtensionOf(name) = <<".","p","d","f">> /\ type = "application/pdf"
    \/ ExtensionOf(name) = <<".","d","o","c","x">>
         /\ type = "application/vnd.openxmlformats-officedocument.wordprocessingml.document"
    \/ ExtensionOf(name) = <<".","t","x","t">> /\ type = "text/plain"

\* an upload that passes the checks of file, size and type
Accepted(u) ==
    /\ u.form /\ u.file
    /\ u.size <= 10 * 1024 * 1024
    /\ ExtensionOf(u.name) \in {<<".","p","d","f">>, <<".","d","o","c","x">>, <<".","t","x","t">>}
    /\ u.type \in {"application/pdf", "text/plain",
                   "application/vnd.openxmlformats-officedocument.wordprocessingml.document"}

(* C7: an upload whose extension and declared MIME type do not match is      *)
(* answered 400 and no extraction routine runs for it.                       *)
C7_MismatchRejected ==
    epc # "idle" /\ upload.form /\ upload.file /\ ~TypeMatches(upload.name, upload.type) =>
        /\ epc = "done"
        /\ eresp.status = 400
        /\ extractor = "none"

(* C8: a file larger than 10 MiB is answered 400 whatever its name, type and *)
(* content, and no extraction routine runs for it; a file of exactly 10 MiB  *)
(* is not rejected by the size check.                                        *)
C8_SizeLimit ==
    epc # "idle" /\ upload.form /\ upload.file =>
        /\ upload.size > 10 * 1024 * 1024 =>
               /\ epc = "done"
               /\ eresp.status = 400
               /\ extractor = "none"
        /\ upload.size = 10 * 1024 * 1024 => eresp.error # "Ukuran file maksimal 10MB"
        /\ upload.size = 10 * 1024 * 1024 /\ Accepted(upload) /\ epc = "done" =>
               extractor # "none"

C8_Witness ==
    /\ epc = "done"
    /\ upload.size = 10 * 1024 * 1024 + 1
    /\ upload.name = <<"a",".","p","d","f">>
    /\ upload.type = "application/pdf"
    /\ eresp.status = 400
    /\ eresp.error = "Ukuran file maksimal 10MB"

(* C9: for an accepted upload the answer is 200, and then the trimmed text   *)
(* has at least 10 characters; or 400 for an empty extraction, exactly when  *)
(* the routine returned and the trimmed text has fewer than 10 characters;   *)
(* or 500 with the underlying message, exactly when the routine threw.       *)
C9_ExtractionOutcome ==
    epc = "done" /\ Accepted(upload) =>
        /\ extractor # "none"
        /\ eresp.status \in {200, 400, 500}
        /\ eresp.status = 200 <=>
               extracted.kind = "text" /\ Len(trim(extracted.text)) >= 10
        /\ eresp.status = 200 => eresp.success /\ eresp.text = extracted.text
        /\ eresp.status = 400 <=>
               extracted.kind # "threw" /\ Len(trim(extracted.text)) < 10
        /\ eresp.status = 400 =>
               eresp.error = "Tidak dapat mengekstrak teks dari file. Pastikan file mengandung teks yang dapat dibaca."
        /\ eresp.status = 500 <=> extracted.kind = "threw"
        /\ eresp.status = 500 =>
               eresp.error = "Gagal mengekstrak teks dari" /\ eresp.message = extracted.message

C9_Witness ==
    /\ epc = "done"
    /\ upload.name = <<"a",".","t","x","t">>
    /\ upload.type = "text/plain"
    /\ upload.content = <<"H","i">>
    /\ upload.size = 2
    /\ eresp.status = 400

---------------------------------------------------------------------------
(* Properties of the Fallback Generator across requests *)

---------------------------------------------------------------------------
(* Properties of the questions of the Fallback Generator *)

\* a text of at least one character
NonEmptyText(t) == t.pre # "" \/ t.kw # <<>> \/ t.suf # ""

\* the number of options equal to the answer
CorrectOptions(q) == Cardinality({k \in 1..Len(q.options) : q.options[k] = q.correctAnswer})

ShapeOf(q, questionType) ==
    /\ "question" \in DOMAIN q /\ NonEmptyText(q.question)
    /\ "explanation" \in DOMAIN q /\ NonEmptyText(q.explanation)
    /\ "options" \in DOMAIN q <=> questionType = "multiple-choice"
    /\ "correctAnswer" \notin DOMAIN q <=> questionType = "essay"
    /\ "correctAnswer" \in DOMAIN q => NonEmptyText(q.correctAnswer)
    /\ "options" \in DOMAIN q =>
           /\ Len(q.options) = 4
           /\ "correctAnswer" \in DOMAIN q
           /\ CorrectOptions(q) = 1
           /\ \A k \in 1..Len(q.options) : NonEmptyText(q.options[k])

(* C11: every question of the Fallback Generator has a non-empty question    *)
(* and explanation; it has options if and only if the type is                *)
(* multiple-choice, and then four of them, exactly one of which is the       *)
(* correctAnswer; it has no correctAnswer if and only if the type is essay.  *)
C11_QuestionShape ==
    gpc = "done" /\ gresp.source = "Fallback" =>
        \A i \in 1..Len(gresp.questions) : ShapeOf(gresp.questions[i], body.questionType)

C11_Witness ==
    /\ gpc = "done"
    /\ gresp.source = "Fallback"
    /\ body.questionType = "multiple-choice"
    /\ body.questionCount = 3
    /\ Len(gresp.questions) = 3
    /\ Len(extractRelevantKeywords(body.material)) = 1
    /\ gresp.questions[3].correctAnswer = gresp.questions[3].options[1]
    /\ "options" \in DOMAIN gresp.questions[3]

=============================================================================
